---- MODULE Spec2Model ----
(***************************************************************************)
(* A model of the warp todo service of src/src/main.rs: the route filters  *)
(* (mod filters), the handlers and the rejection mapper (mod handlers) and *)
(* the mutex-guarded store (mod models).                                   *)
(*                                                                         *)
(* A path segment and a query value are sequences of one-character         *)
(* strings, so that parsing them is a computation.  A rejection is the set *)
(* of the known causes collected along the `or` chain; the empty set is    *)
(* warp's plain not-found rejection.                                       *)
(***************************************************************************)
EXTENDS Integers, Sequences, FiniteSets, TLC

\* ------------------------------------------------------------------------
\* Bounds of the model
\* ------------------------------------------------------------------------
NumTasks == 3        \* concurrent request tasks of Spec
MaxSeqReqs == 4      \* requests served one after another in SpecSeq
MaxId == 2           \* todo ids are 1..MaxId

\* ------------------------------------------------------------------------
\* Program constants
\* ------------------------------------------------------------------------
BodyLimit == 16384
MaxSeconds == 5

Tasks == 1 .. NumTasks
Ids == 1 .. MaxId

\* ------------------------------------------------------------------------
\* Text and parsing
\* ------------------------------------------------------------------------
Digits == <<"0", "1", "2", "3", "4", "5", "6", "7", "8", "9">>

IsDigit(c) == \E i \in 1 .. 10 : Digits[i] = c

DigitVal(c) == (CHOOSE i \in 1 .. 10 : Digits[i] = c) - 1

RECURSIVE DigitsValue(_, _)
DigitsValue(s, acc) ==
    IF s = <<>> THEN acc ELSE DigitsValue(Tail(s), 10 * acc + DigitVal(Head(s)))

\* str::parse::<u64>: an optional leading '+', then one or more decimal
\* digits; -1 stands for Err.  (No segment of the model is long enough to
\* overflow 64 bits.)
ParseU64(s) ==
    LET d == IF s # <<>> /\ Head(s) = "+" THEN Tail(s) ELSE s
    IN  IF d = <<>> \/ \E i \in 1 .. Len(d) : ~IsDigit(d[i])
        THEN -1
        ELSE DigitsValue(d, 0)

\* A parse that clamps to the largest delay where it should fail.
SecondsFromStr_Clamp(s) ==
    LET num == ParseU64(s)
    IN  IF num = -1 THEN -1
        ELSE IF num <= MaxSeconds THEN num ELSE MaxSeconds

\* <Seconds as FromStr>::from_str
SecondsFromStr(s) ==
    LET num == ParseU64(s)
    IN  IF num = -1 THEN -1
        ELSE IF num <= MaxSeconds THEN num ELSE -1

\* The decimal text of a small number (what a client puts in a URL).
Show(n) == IF n < 10 THEN <<Digits[n + 1]>>
           ELSE <<Digits[(n \div 10) + 1], Digits[(n % 10) + 1]>>

SegHi == <<"h", "i">>
SegHo == <<"h", "o">>
SegHello == <<"h", "e", "l", "l", "o">>
SegSleep == <<"s", "l", "e", "e", "p">>
SegRegister == <<"r", "e", "g", "i", "s", "t", "e", "r">>
SegTodos == <<"t", "o", "d", "o", "s">>
SegName == <<"m", "1">>
SegX == <<"x">>

\* ------------------------------------------------------------------------
\* Requests
\* ------------------------------------------------------------------------
\* A header or a query field: present or not, with its raw text.
Absent == [present |-> FALSE, val |-> <<>>]
Given(v) == [present |-> TRUE, val |-> v]

\* A header whose value is compared as a whole.
NoHeader == [present |-> FALSE, val |-> ""]
Header(v) == [present |-> TRUE, val |-> v]

\* A JSON member: absent, or a number, a string or a boolean.
JNone == [t |-> "absent", n |-> 0, s |-> "", b |-> FALSE]
JNum(n) == [t |-> "num", n |-> n, s |-> "", b |-> FALSE]
JStr(s) == [t |-> "str", n |-> 0, s |-> s, b |-> FALSE]
JBool(b) == [t |-> "bool", n |-> 0, s |-> "", b |-> b]

\* A request body: its declared length, whether it is well-formed JSON, and
\* the members of the JSON object.
NoBody ==
    [clen |-> -1, json |-> FALSE,
     id |-> JNone, text |-> JNone, completed |-> JNone, name |-> JNone, rate |-> JNone]

TodoBody(id, text, completed) ==
    [clen |-> 40, json |-> TRUE,
     id |-> JNum(id), text |-> JStr(text), completed |-> JBool(completed),
     name |-> JNone, rate |-> JNone]

EmployeeBody(name, rate) ==
    [clen |-> 24, json |-> TRUE,
     id |-> JNone, text |-> JNone, completed |-> JNone,
     name |-> JStr(name), rate |-> JNum(rate)]

Request(method, path) ==
    [method |-> method, path |-> path,
     offset |-> Absent, limit |-> Absent,
     auth |-> NoHeader, host |-> NoHeader, agent |-> NoHeader,
     ctype |-> "none", body |-> NoBody, readme |-> TRUE]

Methods == {"GET", "POST", "PUT", "DELETE"}

\* ------------------------------------------------------------------------
\* Typed values
\* ------------------------------------------------------------------------
\* models::Todo
Todo(id, text, completed) == [id |-> id, text |-> text, completed |-> completed]

\* The todos clients send: each id open with one text and completed with
\* another.
Todos == {Todo(i, "a", FALSE) : i \in Ids} \cup {Todo(i, "b", TRUE) : i \in Ids}

\* Option<usize>: -1 stands for None.
None == -1

\* models::ListOptions
ListOptions(offset, limit) == [offset |-> offset, limit |-> limit]

\* usize::MAX stands above every length of the model.
UsizeMax == 1000000

\* ------------------------------------------------------------------------
\* Extractors (warp filters used by mod filters)
\* ------------------------------------------------------------------------
\* One Option<usize> field of the query string: an absent field is None, a
\* present one must parse as usize.
QueryField(f) == IF ~f.present THEN None ELSE ParseU64(f.val)

QueryFieldOk(f) == ~f.present \/ ParseU64(f.val) # -1

\* serde's derived Deserialize for Todo: every member present with its type,
\* id an unsigned integer; other members are ignored.
TodoOk(b) ==
    /\ b.json
    /\ b.id.t = "num" /\ b.id.n >= 0
    /\ b.text.t = "str"
    /\ b.completed.t = "bool"

DecodeTodo(b) == Todo(b.id.n, b.text.s, b.completed.b)

\* serde's derived Deserialize for Employee.
EmployeeOk(b) ==
    /\ b.json
    /\ b.name.t = "str"
    /\ b.rate.t = "num" /\ b.rate.n >= 0

\* Host header values that parse as a SocketAddr.
SocketAddrs == {"127.0.0.1:3030"}

\* ------------------------------------------------------------------------
\* Filters
\* ------------------------------------------------------------------------
\* One filter of a route: its kind f, a path literal lit, a method or header
\* value s.
Flt(f, lit, s) == [f |-> f, lit |-> lit, s |-> s]

PathLit(seg) == Flt("path", seg, "")
PathEnd == Flt("end", <<>>, "")
Method(m) == Flt("method", <<>>, m)

\* What the filters of a route have extracted so far, and the part of the
\* path not yet matched.
NoArgs ==
    [id |-> 0, seconds |-> 0, name |-> <<>>,
     todo |-> Todo(0, "", FALSE), opts |-> ListOptions(None, None)]

Start(r) == [ok |-> TRUE, rej |-> {}, rest |-> r.path, args |-> NoArgs]

Reject(st, cause) == [st EXCEPT !.ok = FALSE, !.rej = cause]

\* reject::not_found()
NotFound == {}

\* One filter applied to request r in state st.
Apply(flt, r, st) ==
    CASE flt.f = "path" ->
            IF st.rest # <<>> /\ Head(st.rest) = flt.lit
            THEN [st EXCEPT !.rest = Tail(st.rest)]
            ELSE Reject(st, NotFound)
      [] flt.f = "end" ->
            IF st.rest = <<>> THEN st ELSE Reject(st, NotFound)
      [] flt.f = "param_u64" ->
            IF st.rest # <<>> /\ ParseU64(Head(st.rest)) # -1
            THEN [st EXCEPT !.rest = Tail(st.rest),
                            !.args.id = ParseU64(Head(st.rest))]
            ELSE Reject(st, NotFound)
      [] flt.f = "param_seconds" ->
            IF st.rest # <<>> /\ SecondsFromStr(Head(st.rest)) # -1
            THEN [st EXCEPT !.rest = Tail(st.rest),
                            !.args.seconds = SecondsFromStr(Head(st.rest))]
            ELSE Reject(st, NotFound)
      [] flt.f = "param_string" ->
            IF st.rest # <<>> /\ Head(st.rest) # <<>>
            THEN [st EXCEPT !.rest = Tail(st.rest), !.args.name = Head(st.rest)]
            ELSE Reject(st, NotFound)
      [] flt.f = "method" ->
            IF r.method = flt.s THEN st ELSE Reject(st, {"MethodNotAllowed"})
      [] flt.f = "file" ->
            IF r.readme THEN st ELSE Reject(st, NotFound)
      [] flt.f = "header_exact" ->
            IF ~r.auth.present THEN Reject(st, {"MissingHeader"})
            ELSE IF r.auth.val # flt.s THEN Reject(st, {"InvalidHeader"})
            ELSE st
      [] flt.f = "header_host" ->
            IF ~r.host.present THEN Reject(st, {"MissingHeader"})
            ELSE IF r.host.val \notin SocketAddrs THEN Reject(st, {"InvalidHeader"})
            ELSE st
      [] flt.f = "header_agent" ->
            IF ~r.agent.present THEN Reject(st, {"MissingHeader"}) ELSE st
      [] flt.f = "query" ->
            IF QueryFieldOk(r.offset) /\ QueryFieldOk(r.limit)
            THEN [st EXCEPT !.args.opts =
                      ListOptions(QueryField(r.offset), QueryField(r.limit))]
            ELSE Reject(st, {"InvalidQuery"})
      [] flt.f = "content_length_limit" ->
            IF r.body.clen < 0 THEN Reject(st, {"LengthRequired"})
            ELSE IF r.body.clen > BodyLimit THEN Reject(st, {"PayloadTooLarge"})
            ELSE st
      [] flt.f = "json_todo" ->
            IF r.ctype \notin {"none", "json"} THEN Reject(st, {"UnsupportedMediaType"})
            ELSE IF ~TodoOk(r.body) THEN Reject(st, {"BodyDeserializeError"})
            ELSE [st EXCEPT !.args.todo = DecodeTodo(r.body)]
      [] flt.f = "json_employee" ->
            IF r.ctype \notin {"none", "json"} THEN Reject(st, {"UnsupportedMediaType"})
            ELSE IF ~EmployeeOk(r.body) THEN Reject(st, {"BodyDeserializeError"})
            ELSE st

\* The filters of a route joined by `and`: applied left to right, stopping
\* at the first that rejects.
RECURSIVE Chain(_, _, _)
Chain(fs, r, st) ==
    IF fs = <<>> \/ ~st.ok THEN st
    ELSE Chain(Tail(fs), r, Apply(Head(fs), r, st))

\* ------------------------------------------------------------------------
\* Routes (mod filters)
\* ------------------------------------------------------------------------
Route(handler, filters) == [handler |-> handler, filters |-> filters]

\* warp::body::content_length_limit(1024 * 16).and(warp::body::json())
json_body(decoder) == <<Flt("content_length_limit", <<>>, ""), Flt(decoder, <<>>, "")>>

readme ==
    Route("readme", <<Method("GET"), PathEnd, Flt("file", <<>>, "")>>)

hello ==
    Route("hello",
          <<PathLit(SegHello), Method("GET"), Flt("param_string", <<>>, ""),
            Flt("header_host", <<>>, ""), Flt("header_agent", <<>>, "")>>)

hi == Route("hi", <<PathLit(SegHi), Method("GET")>>)

sleep ==
    Route("sleepy", <<PathLit(SegSleep), Method("GET"), Flt("param_seconds", <<>>, "")>>)

register ==
    Route("register",
          <<PathLit(SegRegister), Method("POST")>> \o json_body("json_employee"))

todos_list ==
    Route("list_todos",
          <<PathLit(SegTodos), PathEnd, Method("GET"), Flt("query", <<>>, "")>>)

todos_create ==
    Route("create_todo",
          <<PathLit(SegTodos), PathEnd, Method("POST")>> \o json_body("json_todo"))

todos_update ==
    Route("update_todo",
          <<PathLit(SegTodos), Flt("param_u64", <<>>, ""), PathEnd, Method("PUT")>>
              \o json_body("json_todo"))

AdminToken == "Bearer admin"

\* The delete route without its admin_only filter.
todos_delete_NoAuth ==
    Route("delete_todo",
          <<PathLit(SegTodos), Flt("param_u64", <<>>, ""), PathEnd, Method("DELETE")>>)

todos_delete ==
    Route("delete_todo",
          <<PathLit(SegTodos), Flt("param_u64", <<>>, ""), PathEnd,
            Flt("header_exact", <<>>, AdminToken), Method("DELETE")>>)

init == <<readme, hello, hi, sleep, register>>

todos == <<todos_list, todos_create, todos_update, todos_delete>>

\* filters::init().or(filters::todos(db))
routes == init \o todos

\* a.or(b).or(c)...: the first route that accepts the request wins; when all
\* reject, the rejections are combined.
RECURSIVE Or(_, _, _)
Or(rs, r, rej) ==
    IF rs = <<>>
    THEN [ok |-> FALSE, handler |-> "none", args |-> NoArgs, rej |-> rej]
    ELSE LET st == Chain(Head(rs).filters, r, Start(r))
         IN  IF st.ok
             THEN [ok |-> TRUE, handler |-> Head(rs).handler, args |-> st.args,
                   rej |-> {}]
             ELSE Or(Tail(rs), r, rej \cup st.rej)

Dispatch(r) == Or(routes, r, {})

\* ------------------------------------------------------------------------
\* Responses
\* ------------------------------------------------------------------------
\* body is "empty", "text", "json", "file", "error" (an ErrorMessage, whose
\* code is the status) or "todos" (a JSON array, in list).
Response(status, body, message, list) ==
    [status |-> status, body |-> body, message |-> message, list |-> list]

NoResponse == Response(0, "empty", "", <<>>)

StatusOnly(status) == Response(status, "empty", "", <<>>)

\* The mapper looking for MethodNotAllowed before BodyDeserializeError.
rejection_MethodFirst(err) ==
    IF err = NotFound THEN Response(404, "error", "NOT_FOUND", <<>>)
    ELSE IF "MethodNotAllowed" \in err
         THEN Response(405, "error", "METHOD_NOT_ALLOWED", <<>>)
    ELSE IF "BodyDeserializeError" \in err
         THEN Response(400, "error", "BAD_REQUEST", <<>>)
    ELSE Response(500, "error", "UNHANDLED_REJECTION", <<>>)

\* The mapper without its branch for MethodNotAllowed.
rejection_NoMethodBranch(err) ==
    IF err = NotFound THEN Response(404, "error", "NOT_FOUND", <<>>)
    ELSE IF "BodyDeserializeError" \in err
         THEN Response(400, "error", "BAD_REQUEST", <<>>)
    ELSE Response(500, "error", "UNHANDLED_REJECTION", <<>>)

\* handlers::rejection
rejection(err) ==
    IF err = NotFound THEN Response(404, "error", "NOT_FOUND", <<>>)
    ELSE IF "BodyDeserializeError" \in err
         THEN Response(400, "error", "BAD_REQUEST", <<>>)
    ELSE IF "MethodNotAllowed" \in err
         THEN Response(405, "error", "METHOD_NOT_ALLOWED", <<>>)
    ELSE Response(500, "error", "UNHANDLED_REJECTION", <<>>)

\* ------------------------------------------------------------------------
\* Store handlers (mod handlers), as the steps a task takes under the guard
\* ------------------------------------------------------------------------
RECURSIVE Skip(_, _)
\* Iterator::skip
Skip(s, n) == IF n = 0 \/ s = <<>> THEN s ELSE Skip(Tail(s), n - 1)

RECURSIVE Take(_, _)
\* Iterator::take
Take(s, n) == IF n = 0 \/ s = <<>> THEN <<>> ELSE <<Head(s)>> \o Take(Tail(s), n - 1)

\* Option::unwrap_or
UnwrapOr(o, d) == IF o = None THEN d ELSE o

HasId(s, id) == \E i \in 1 .. Len(s) : s[i].id = id

\* The first position of s holding id, 0 when there is none: where the
\* loops of create_todo and update_todo stop.
FirstIndex(s, id) ==
    IF HasId(s, id)
    THEN CHOOSE i \in 1 .. Len(s) :
             /\ s[i].id = id
             /\ \A j \in 1 .. i - 1 : s[j].id # id
    ELSE 0

\* vec.retain(|todo| todo.id != id)
Retain(s, id) == SelectSeq(s, LAMBDA todo : todo.id # id)

\* What a handler has read of the store before it writes or answers.
NoLocal == [idx |-> 0, len |-> 0, snap |-> <<>>]

\* The reading half of a handler: the clone of list_todos, the loops of
\* create_todo and update_todo, the len of delete_todo.
ScanOf(c, s) ==
    CASE c.handler = "list_todos" -> [NoLocal EXCEPT !.snap = s]
      [] c.handler = "create_todo" -> [NoLocal EXCEPT !.idx = FirstIndex(s, c.args.todo.id)]
      [] c.handler = "update_todo" -> [NoLocal EXCEPT !.idx = FirstIndex(s, c.args.id)]
      [] c.handler = "delete_todo" -> [NoLocal EXCEPT !.len = Len(s)]

\* A list that takes before it skips.
list_todos_TakeThenSkip(opts, snap) ==
    Response(200, "todos", "",
             Skip(Take(snap, UnwrapOr(opts.limit, UsizeMax)), UnwrapOr(opts.offset, 0)))

\* handlers::list_todos
list_todos(opts, snap) ==
    Response(200, "todos", "",
             Take(Skip(snap, UnwrapOr(opts.offset, 0)), UnwrapOr(opts.limit, UsizeMax)))

\* A create that does not look for the id.
create_todo_NoConflictCheck(create, l, s) ==
    [store |-> Append(s, create), resp |-> StatusOnly(201)]

\* A create that inserts at the front.
create_todo_PushFront(create, l, s) ==
    IF l.idx # 0
    THEN [store |-> s, resp |-> StatusOnly(400)]
    ELSE [store |-> <<create>> \o s, resp |-> StatusOnly(201)]

\* handlers::create_todo
create_todo(create, l, s) ==
    IF l.idx # 0
    THEN [store |-> s, resp |-> StatusOnly(400)]
    ELSE [store |-> Append(s, create), resp |-> StatusOnly(201)]

\* An update that keeps the id of the entry it replaces.
update_todo_KeepId(update, l, s) ==
    IF l.idx # 0 /\ l.idx <= Len(s)
    THEN [store |-> [s EXCEPT ![l.idx] = [update EXCEPT !.id = s[l.idx].id]],
          resp |-> StatusOnly(200)]
    ELSE [store |-> s, resp |-> StatusOnly(404)]

\* handlers::update_todo
update_todo(update, l, s) ==
    IF l.idx # 0 /\ l.idx <= Len(s)
    THEN [store |-> [s EXCEPT ![l.idx] = update], resp |-> StatusOnly(200)]
    ELSE [store |-> s, resp |-> StatusOnly(404)]

\* handlers::delete_todo
delete_todo(id, l, s) ==
    LET vec == Retain(s, id)
        deleted == Len(vec) # l.len
    IN  [store |-> vec, resp |-> StatusOnly(IF deleted THEN 204 ELSE 404)]

\* The writing and answering half of a handler.
CommitOf(c, l, s) ==
    CASE c.handler = "list_todos" ->
             [store |-> s, resp |-> list_todos(c.args.opts, l.snap)]
      [] c.handler = "create_todo" -> create_todo(c.args.todo, l, s)
      [] c.handler = "update_todo" -> update_todo(c.args.todo, l, s)
      [] c.handler = "delete_todo" -> delete_todo(c.args.id, l, s)

\* A handler run alone on store s.
RunAlone(c, s) == CommitOf(c, ScanOf(c, s), s)

StoreHandlers == {"list_todos", "create_todo", "update_todo", "delete_todo"}

\* handlers::hi, hello, register, and the file reply of readme
PlainReply(handler) ==
    CASE handler = "hi" -> Response(200, "text", "Hello, World!", <<>>)
      [] handler = "hello" -> Response(200, "json", "", <<>>)
      [] handler = "register" -> Response(200, "json", "", <<>>)
      [] handler = "readme" -> Response(200, "file", "", <<>>)

NoCall == [handler |-> "none", args |-> NoArgs]

\* ------------------------------------------------------------------------
\* The requests clients send
\* ------------------------------------------------------------------------
Post(todo) ==
    [Request("POST", <<SegTodos>>) EXCEPT
        !.ctype = "json", !.body = TodoBody(todo.id, todo.text, todo.completed)]

Put(id, todo) ==
    [Request("PUT", <<SegTodos, Show(id)>>) EXCEPT
        !.ctype = "json", !.body = TodoBody(todo.id, todo.text, todo.completed)]

Delete(id, auth) == [Request("DELETE", <<SegTodos, Show(id)>>) EXCEPT !.auth = auth]

List(offset, limit) ==
    [Request("GET", <<SegTodos>>) EXCEPT !.offset = offset, !.limit = limit]

Sleep(seg) == Request("GET", <<SegSleep, seg>>)

\* The requests of the concurrent specification: a mix in which creates,
\* updates, deletes and lists of the same ids race.
ConcRequests ==
    {Post(Todo(1, "a", FALSE)), Post(Todo(MaxId, "a", FALSE)), Post(Todo(1, "b", TRUE)),
     Put(1, Todo(1, "b", TRUE)), Put(1, Todo(MaxId, "b", FALSE)),
     Delete(1, Header(AdminToken)), List(Absent, Absent), Sleep(Show(2))}

Paths ==
    {<<>>, <<SegHi>>, <<SegHo>>, <<SegHi, SegX>>, <<SegHello>>, <<SegHello, SegName>>,
     <<SegSleep, Show(2)>>, <<SegSleep, Show(MaxSeconds + 1)>>, <<SegSleep, SegX>>,
     <<SegRegister>>, <<SegTodos>>, <<SegTodos, SegX>>, <<SegTodos, Show(1), SegX>>}
        \cup {<<SegTodos, Show(i)>> : i \in Ids}

TodoPaths == {<<SegTodos>>, <<SegTodos, SegX>>} \cup {<<SegTodos, Show(i)>> : i \in Ids}

AuthHeaders == {Header(AdminToken), Header("Bearer user"), Header("bearer admin")}

\* Bodies that are not a Todo: not JSON, a member missing, a member of the
\* wrong type, a negative id, no content-length, one byte over the limit.
BadBodies ==
    {[TodoBody(1, "a", FALSE) EXCEPT !.json = FALSE],
     [TodoBody(1, "a", FALSE) EXCEPT !.text = JNone],
     [TodoBody(1, "a", FALSE) EXCEPT !.completed = JStr("no")],
     [TodoBody(1, "a", FALSE) EXCEPT !.id = JNum(-1)],
     [TodoBody(1, "a", FALSE) EXCEPT !.clen = -1],
     [TodoBody(1, "a", FALSE) EXCEPT !.clen = BodyLimit + 1]}

\* Query values that parse, from 0 to beyond every length the store reaches
\* before a list, and query values that do not.
GoodQueryValues == {Absent} \cup {Given(Show(n)) : n \in 0 .. MaxId + 1}

BadQueryValues == {Given(<<>>), Given(SegX), Given(<<"-", "1">>)}

\* Segments after /sleep: the numbers from 0 to beyond the largest delay,
\* spelled plainly and otherwise, and text that is no number.
SleepSegs ==
    {Show(n) : n \in 0 .. MaxSeconds + 2}
        \cup {<<"+", "3">>, <<"0", "4">>, <<"1", "0">>, <<"-", "1">>, SegX}

AllRequests ==
    {Request(m, p) : m \in Methods, p \in Paths}
        \cup {[Request(m, p) EXCEPT !.auth = a] :
                  m \in Methods, p \in TodoPaths, a \in AuthHeaders}
        \cup {Post(todo) : todo \in Todos}
        \cup {Put(i, todo) : i \in Ids, todo \in Todos}
        \cup {[Post(Todo(1, "a", FALSE)) EXCEPT !.body = b] : b \in BadBodies}
        \cup {[Put(1, Todo(1, "a", FALSE)) EXCEPT !.body = b] : b \in BadBodies}
        \cup {[Post(Todo(1, "a", FALSE)) EXCEPT !.ctype = c] : c \in {"none", "text"}}
        \cup {[Request("POST", <<SegRegister>>) EXCEPT !.body = b] :
                  b \in {EmployeeBody("Sean", 2), TodoBody(1, "a", FALSE)}}
        \cup {List(o, l) : o \in GoodQueryValues, l \in GoodQueryValues}
        \cup {List(o, Absent) : o \in BadQueryValues}
        \cup {List(Absent, l) : l \in BadQueryValues}
        \cup {List(Given(Show(1)), Given(SegX))}
        \cup {[Request("GET", <<SegHello, SegName>>) EXCEPT !.host = h, !.agent = a] :
                  h \in {Header("127.0.0.1:3030"), Header("localhost")},
                  a \in {NoHeader, Header("curl")}}
        \cup {[Request("GET", <<>>) EXCEPT !.readme = FALSE]}
        \cup {Sleep(seg) : seg \in SleepSegs}

\* ------------------------------------------------------------------------
\* State
\* ------------------------------------------------------------------------
VARIABLES
    store,    \* the Vec<Todo> inside the mutex
    guard,    \* the task holding the mutex, 0 when it is free
    pc,       \* where each task is: idle, lock, held, scanned, sleeping, done
    req,      \* the request a task serves
    call,     \* the handler the routes chose for it, with its arguments
    local,    \* what the handler has read of the store
    resp,     \* the response
    log,      \* the tasks in the order their store operations returned
    served    \* the number of requests received so far

vars == <<store, guard, pc, req, call, local, resp, log, served>>

NoRequest == Request("GET", <<>>)

\* models::blank_db, and no request received yet
Init ==
    /\ store = <<>>
    /\ guard = 0
    /\ pc = [t \in Tasks |-> "idle"]
    /\ req = [t \in Tasks |-> NoRequest]
    /\ call = [t \in Tasks |-> NoCall]
    /\ local = [t \in Tasks |-> NoLocal]
    /\ resp = [t \in Tasks |-> NoResponse]
    /\ log = <<>>
    /\ served = 0

\* A sleepy that takes the guard, when it is free, and sleeps holding it.
ReceiveSleepLocks(t, r) ==
    /\ pc[t] = "idle"
    /\ LET d == Dispatch(r)
       IN  /\ req' = [req EXCEPT ![t] = r]
           /\ call' = [call EXCEPT ![t] = [handler |-> d.handler, args |-> d.args]]
           /\ pc' = [pc EXCEPT ![t] =
                        IF ~d.ok THEN "done"
                        ELSE IF d.handler \in StoreHandlers THEN "lock"
                        ELSE IF d.handler = "sleepy" THEN "sleeping"
                        ELSE "done"]
           /\ resp' = [resp EXCEPT ![t] =
                          IF ~d.ok THEN rejection(d.rej)
                          ELSE IF d.handler \in StoreHandlers \cup {"sleepy"} THEN NoResponse
                          ELSE PlainReply(d.handler)]
           /\ guard' = IF d.ok /\ d.handler = "sleepy" /\ guard = 0 THEN t ELSE guard
    /\ served' = served + 1
    /\ UNCHANGED <<store, local, log>>

\* A request arrives and runs through the routes up to the first suspension
\* point of its handler: a rejected request is answered by handlers::rejection,
\* hi, hello, register and readme answer at once, sleepy goes to sleep, and a
\* store handler asks for the mutex.
Receive(t, r) ==
    /\ pc[t] = "idle"
    /\ LET d == Dispatch(r)
       IN  /\ req' = [req EXCEPT ![t] = r]
           /\ call' = [call EXCEPT ![t] = [handler |-> d.handler, args |-> d.args]]
           /\ pc' = [pc EXCEPT ![t] =
                        IF ~d.ok THEN "done"
                        ELSE IF d.handler \in StoreHandlers THEN "lock"
                        ELSE IF d.handler = "sleepy" THEN "sleeping"
                        ELSE "done"]
           /\ resp' = [resp EXCEPT ![t] =
                          IF ~d.ok THEN rejection(d.rej)
                          ELSE IF d.handler \in StoreHandlers \cup {"sleepy"} THEN NoResponse
                          ELSE PlainReply(d.handler)]
    /\ served' = served + 1
    /\ UNCHANGED <<store, guard, local, log>>

\* A lock that does not exclude: the guard is handed out while it is held.
AcquireNoExclusion(t) ==
    /\ pc[t] = "lock"
    /\ guard' = t
    /\ pc' = [pc EXCEPT ![t] = "held"]
    /\ UNCHANGED <<store, req, call, local, resp, log, served>>

\* db.lock().await returns: the task holds the guard.
Acquire(t) ==
    /\ pc[t] = "lock"
    /\ guard = 0
    /\ guard' = t
    /\ pc' = [pc EXCEPT ![t] = "held"]
    /\ UNCHANGED <<store, req, call, local, resp, log, served>>

\* The handler reads the store.
Scan(t) ==
    /\ pc[t] = "held"
    /\ local' = [local EXCEPT ![t] = ScanOf(call[t], store)]
    /\ pc' = [pc EXCEPT ![t] = "scanned"]
    /\ UNCHANGED <<store, guard, req, call, resp, log, served>>

\* A return that keeps the guard on the early return of a conflicting create.
CommitLeak(t) ==
    /\ pc[t] = "scanned"
    /\ LET out == CommitOf(call[t], local[t], store)
       IN  /\ store' = out.store
           /\ resp' = [resp EXCEPT ![t] = out.resp]
           /\ guard' = IF out.resp.status = 400 THEN guard ELSE 0
    /\ pc' = [pc EXCEPT ![t] = "done"]
    /\ log' = Append(log, t)
    /\ UNCHANGED <<req, call, local, served>>

\* A return that keeps the guard on the not-found return of update and delete.
CommitLeakNotFound(t) ==
    /\ pc[t] = "scanned"
    /\ LET out == CommitOf(call[t], local[t], store)
       IN  /\ store' = out.store
           /\ resp' = [resp EXCEPT ![t] = out.resp]
           /\ guard' = IF out.resp.status = 404 THEN guard ELSE 0
    /\ pc' = [pc EXCEPT ![t] = "done"]
    /\ log' = Append(log, t)
    /\ UNCHANGED <<req, call, local, served>>

\* The handler writes the store and returns; returning drops the guard.
Commit(t) ==
    /\ pc[t] = "scanned"
    /\ LET out == CommitOf(call[t], local[t], store)
       IN  /\ store' = out.store
           /\ resp' = [resp EXCEPT ![t] = out.resp]
    /\ guard' = 0
    /\ pc' = [pc EXCEPT ![t] = "done"]
    /\ log' = Append(log, t)
    /\ UNCHANGED <<req, call, local, served>>

\* tokio::time::sleep(..).await returns and sleepy answers.
Wake(t) ==
    /\ pc[t] = "sleeping"
    /\ resp' = [resp EXCEPT ![t] =
                   Response(200, "text", "I waited seconds!", <<>>)]
    /\ pc' = [pc EXCEPT ![t] = "done"]
    /\ UNCHANGED <<store, guard, req, call, local, log, served>>

\* The connection of a finished request takes the next one.
KeepAlive(t) ==
    /\ pc[t] = "done"
    /\ served < MaxSeqReqs
    /\ pc' = [pc EXCEPT ![t] = "idle"]
    /\ req' = [req EXCEPT ![t] = NoRequest]
    /\ call' = [call EXCEPT ![t] = NoCall]
    /\ local' = [local EXCEPT ![t] = NoLocal]
    /\ resp' = [resp EXCEPT ![t] = NoResponse]
    /\ log' = <<>>
    /\ UNCHANGED <<store, guard, served>>

\* Concurrent requests, each its own task.
Next ==
    \E t \in Tasks :
        \/ \E r \in ConcRequests : Receive(t, r)
        \/ Acquire(t)
        \/ Scan(t)
        \/ Commit(t)
        \/ Wake(t)

Spec == Init /\ [][Next]_vars

\* One connection sending any request after any other.
NextSeq ==
    \/ \E r \in AllRequests : Receive(1, r)
    \/ Acquire(1)
    \/ Scan(1)
    \/ Commit(1)
    \/ Wake(1)
    \/ KeepAlive(1)

SpecSeq == Init /\ [][NextSeq]_vars

\* The requests of the fair specification: one of each store operation on
\* one id, and a delay.
FairRequests ==
    {Post(Todo(1, "a", FALSE)), Put(1, Todo(1, "b", TRUE)),
     Delete(1, Header(AdminToken)), List(Absent, Absent), Sleep(Show(2))}

NextFair ==
    \E t \in Tasks :
        \/ \E r \in FairRequests : Receive(t, r)
        \/ Acquire(t)
        \/ Scan(t)
        \/ Commit(t)
        \/ Wake(t)

\* Concurrent requests under the scheduling of the runtime: a task that can
\* run does run, and the mutex, which serves its waiters in turn, does not
\* pass a waiter over for ever.  Nothing obliges a request to arrive or a
\* sleeper to wake.
SpecFair ==
    /\ Init
    /\ [][NextFair]_vars
    /\ \A t \in Tasks : WF_vars(Scan(t)) /\ WF_vars(Commit(t)) /\ SF_vars(Acquire(t))

TypeOK ==
    /\ guard \in 0 .. NumTasks
    /\ \A t \in Tasks : pc[t] \in {"idle", "lock", "held", "scanned", "sleeping", "done"}

\* ------------------------------------------------------------------------
\* Claims
\* ------------------------------------------------------------------------
Range(f) == {f[i] : i \in DOMAIN f}

\* The tasks whose store operation has returned.
Committed == Range(log)

RECURSIVE Serial(_, _)
\* Some order of the tasks of D, their handlers run one at a time from store
\* s, gives every task the response it got and ends in the present store.
Serial(D, s) ==
    IF D = {} THEN s = store
    ELSE \E t \in D :
             LET out == RunAlone(call[t], s)
             IN  /\ out.resp = resp[t]
                 /\ Serial(D \ {t}, out.store)

\* C1: whatever the interleaving of concurrent create, update, delete and
\* list requests, the store and every response are those of running the
\* returned operations one at a time in some order from the empty store.
C1_Serializable == Serial(Committed, <<>>)

\* C1 witness: a create has returned while an update holds the guard with
\* the store read and a delete waits for the guard.
C1_Witness ==
    \E t, u, v \in Tasks :
        /\ pc[t] = "done" /\ call[t].handler = "create_todo" /\ resp[t].status = 201
        /\ pc[u] = "scanned" /\ call[u].handler = "update_todo"
        /\ pc[v] = "lock" /\ call[v].handler = "delete_todo"

\* Task t's store operation returns in this step.
Returns(t, handler) ==
    pc[t] = "scanned" /\ pc'[t] = "done" /\ call[t].handler = handler

DistinctIds(s) == \A i, j \in 1 .. Len(s) : s[i].id = s[j].id => i = j

\* C2: whenever no task holds the guard, the ids of the store are pairwise
\* distinct, whatever creates, updates (also those whose body id differs
\* from the path id) and deletes have run.
C2_DistinctIds == guard = 0 => DistinctIds(store)

\* C3: a POST /todos whose id some entry has leaves the store as it is and
\* is answered 400; one whose id no entry has is answered 201.
C3_CreateConflict ==
    [][\A t \in Tasks :
          (/\ Returns(t, "create_todo")
           /\ req[t].method = "POST" /\ req[t].path = <<SegTodos>>)
          => IF HasId(store, req[t].body.id.n)
             THEN store' = store /\ resp'[t].status = 400
             ELSE resp'[t].status = 201]_vars

\* C3 witness: a create has been answered 400 and the store still holds,
\* under its id, an entry that differs from the request's body.
C3_Witness ==
    \E t \in Tasks :
        /\ pc[t] = "done" /\ call[t].handler = "create_todo" /\ resp[t].status = 400
        /\ \E i \in 1 .. Len(store) :
               /\ store[i].id = call[t].args.todo.id
               /\ store[i] # call[t].args.todo

\* The first k operations that returned are creates of pairwise distinct ids.
DistinctCreates(k) ==
    /\ \A i \in 1 .. k : call[log[i]].handler = "create_todo"
    /\ \A i, j \in 1 .. k :
           call[log[i]].args.todo.id = call[log[j]].args.todo.id => i = j

\* C4: from the empty store, creates of pairwise distinct ids all succeed,
\* and a list without offset and limit that follows them returns the created
\* todos, each once, in the order of creation.
C4_CreatesThenList ==
    \A k \in 0 .. Len(log) :
        DistinctCreates(k)
        => /\ \A i \in 1 .. k : resp[log[i]].status = 201
           /\ (/\ k < Len(log)
               /\ call[log[k + 1]].handler = "list_todos"
               /\ ~req[log[k + 1]].offset.present
               /\ ~req[log[k + 1]].limit.present)
              => /\ resp[log[k + 1]].status = 200
                 /\ resp[log[k + 1]].list = [i \in 1 .. k |-> call[log[i]].args.todo]

\* C4 witness: two creates of distinct ids, then a list that returned two todos.
C4_Witness ==
    /\ Len(log) >= 3
    /\ DistinctCreates(2)
    /\ call[log[3]].handler = "list_todos"
    /\ Len(resp[log[3]].list) = 2

\* C5: a PUT /todos/{id} for an id no entry has leaves the store as it is
\* and is answered 404; for an id some entry has it is answered 200 and an
\* entry that had the id now is the todo of the body, the others unchanged.
C5_Update ==
    [][\A t \in Tasks :
          Returns(t, "update_todo")
          => LET id == call[t].args.id
                 update == DecodeTodo(req[t].body)
             IN  IF ~HasId(store, id)
                 THEN store' = store /\ resp'[t].status = 404
                 ELSE /\ resp'[t].status = 200
                      /\ Len(store') = Len(store)
                      /\ \E i \in 1 .. Len(store) :
                             /\ store[i].id = id
                             /\ store'[i] = update
                             /\ \A j \in 1 .. Len(store) : j # i => store'[j] = store[j]]_vars

\* C5 witness: an update whose body id differs from its path id has
\* returned 200 and the store holds its body.
C5_Witness ==
    \E t \in Tasks :
        /\ pc[t] = "done" /\ call[t].handler = "update_todo"
        /\ resp[t].status = 200
        /\ call[t].args.todo.id # call[t].args.id
        /\ \E i \in 1 .. Len(store) : store[i] = call[t].args.todo

\* C6: an authorized delete of an id no entry has keeps the length and is
\* answered 404; of an id some entry has it is answered 204, shortens the
\* store by exactly one and leaves no entry with the id, so that the same
\* delete run again is answered 404.
C6_Delete ==
    [][\A t \in Tasks :
          Returns(t, "delete_todo")
          => LET id == call[t].args.id
             IN  IF ~HasId(store, id)
                 THEN Len(store') = Len(store) /\ resp'[t].status = 404
                 ELSE /\ resp'[t].status = 204
                      /\ Len(store') = Len(store) - 1
                      /\ ~HasId(store', id)
                      /\ RunAlone(call[t], store').resp.status = 404]_vars

Min(a, b) == IF a < b THEN a ELSE b

\* C7: list never fails and returns the entries of the store at positions
\* offset up to but excluding offset + limit, clipped to the length of the
\* store, in store order: at most limit entries, none when offset is at or
\* beyond the length (an absent offset is 0, an absent limit is unbounded).
C7_ListWindow ==
    [][\A t \in Tasks :
          Returns(t, "list_todos")
          => LET opts == call[t].args.opts
                 n == Len(store)
                 first == Min(n, IF opts.offset = None THEN 0 ELSE opts.offset)
                 last == IF opts.limit = None THEN n ELSE Min(n, first + opts.limit)
             IN  /\ resp'[t].status = 200
                 /\ resp'[t].list = [i \in 1 .. last - first |-> store[first + i]]
                 /\ opts.limit # None => Len(resp'[t].list) <= opts.limit
                 /\ (opts.offset # None /\ opts.offset >= n) => resp'[t].list = <<>>
                 /\ store' = store]_vars

\* C7 witness: a list with offset 1 and limit 1 on a store of at least two
\* entries has returned its second entry alone.
C7_Witness ==
    \E t \in Tasks :
        /\ pc[t] = "done" /\ call[t].handler = "list_todos"
        /\ call[t].args.opts = ListOptions(1, 1)
        /\ Len(store) >= 2
        /\ resp[t].list = <<store[2]>>

IsPathFilter(flt) == flt.f \in {"path", "end", "param_u64", "param_seconds", "param_string"}

\* The path pattern of a route matches the path of request r.
PathMatches(route, r) == Chain(SelectSeq(route.filters, IsPathFilter), r, Start(r)).ok

\* The route accepts the method of request r.
MethodAccepted(route, r) ==
    \E i \in 1 .. Len(route.filters) :
        route.filters[i].f = "method" /\ route.filters[i].s = r.method

\* C8: a request, of any method, whose path matches the path pattern of no
\* route is answered 404 NOT_FOUND.
C8_UnmatchedPath ==
    \A t \in Tasks :
        (/\ pc[t] # "idle"
         /\ \A i \in 1 .. Len(routes) : ~PathMatches(routes[i], req[t]))
        => /\ pc[t] = "done"
           /\ resp[t] = Response(404, "error", "NOT_FOUND", <<>>)

\* C9: a request whose path matches the path pattern of some route, and
\* whose method no route with a matching path pattern accepts, is answered
\* 405 and never 404.
C9_MethodNotAllowed ==
    \A t \in Tasks :
        (/\ pc[t] # "idle"
         /\ \E i \in 1 .. Len(routes) : PathMatches(routes[i], req[t])
         /\ \A i \in 1 .. Len(routes) :
                PathMatches(routes[i], req[t]) => ~MethodAccepted(routes[i], req[t]))
        => /\ pc[t] = "done"
           /\ resp[t] = Response(405, "error", "METHOD_NOT_ALLOWED", <<>>)

\* C9 witness: a GET /todos/1 carrying the admin header was answered 405.
C9_Witness ==
    \E t \in Tasks :
        /\ pc[t] = "done"
        /\ req[t].method = "GET" /\ req[t].path = <<SegTodos, Show(1)>>
        /\ req[t].auth = Header(AdminToken)
        /\ resp[t].status = 405

\* A DELETE /todos/{id} without the exact admin header.
UnauthorizedDelete(r) ==
    /\ r.method = "DELETE"
    /\ Len(r.path) = 2 /\ r.path[1] = SegTodos /\ ParseU64(r.path[2]) # -1
    /\ ~r.auth.present \/ r.auth.val # "Bearer admin"

\* C10: a DELETE /todos/{id} whose authorization header is missing or is
\* not exactly 'Bearer admin' never reaches delete_todo: it is answered at
\* once by a rejection, never 204, and the store stays as it is; with the
\* exact header and an id some entry has, the answer is 204.
C10_AdminOnlyDelete ==
    /\ [](\A t \in Tasks :
             (pc[t] # "idle" /\ UnauthorizedDelete(req[t]))
             => /\ pc[t] = "done"
                /\ call[t].handler # "delete_todo"
                /\ resp[t].body = "error" /\ resp[t].status # 204
                /\ t \notin Committed)
    /\ [][\A t \in Tasks :
             /\ (pc[t] = "idle" /\ pc'[t] # "idle" /\ UnauthorizedDelete(req'[t]))
                => store' = store
             /\ (/\ pc[t] = "idle" /\ pc'[t] # "idle"
                 /\ req'[t].method = "DELETE"
                 /\ Len(req'[t].path) = 2 /\ req'[t].path[1] = SegTodos
                 /\ ParseU64(req'[t].path[2]) # -1
                 /\ req'[t].auth = Header("Bearer admin"))
                => pc'[t] = "lock" /\ call'[t].handler = "delete_todo"
             /\ (Returns(t, "delete_todo") /\ HasId(store, call[t].args.id))
                => resp'[t].status = 204]_vars

\* C10 witness: a DELETE with the header 'Bearer user' for an id in the
\* store was rejected, and the entry is still there.
C10_Witness ==
    \E t \in Tasks :
        /\ pc[t] = "done"
        /\ req[t].method = "DELETE" /\ req[t].path = <<SegTodos, Show(1)>>
        /\ req[t].auth = Header("Bearer user")
        /\ resp[t].status = 405
        /\ HasId(store, 1)

\* What route i, tried alone, makes of request r.
RouteOutcome(i, r) == Chain(routes[i].filters, r, Start(r))

AllReject(r) == \A i \in 1 .. Len(routes) : ~RouteOutcome(i, r).ok

\* The causes for which the routes rejected request r.
Causes(r) == UNION {RouteOutcome(i, r).rej : i \in 1 .. Len(routes)}

\* A POST /todos or a PUT /todos/{id}.
CarriesTodo(r) ==
    \/ r.method = "POST" /\ r.path = <<SegTodos>>
    \/ /\ r.method = "PUT"
       /\ Len(r.path) = 2 /\ r.path[1] = SegTodos /\ ParseU64(r.path[2]) # -1

\* C11: a request every route rejects is answered by precedence: 404 when
\* every route rejected it for its path, else 400 when some route could not
\* deserialize its body (also when others rejected its method), else 405
\* when some route rejected its method, else 500.  So a POST /todos or a PUT
\* /todos/{id} whose body, within the limit, is no Todo is answered 400.
C11_Precedence ==
    \A t \in Tasks :
        (pc[t] # "idle" /\ AllReject(req[t]))
        => /\ pc[t] = "done"
           /\ resp[t].body = "error"
           /\ resp[t].status =
                  IF Causes(req[t]) = {} THEN 404
                  ELSE IF "BodyDeserializeError" \in Causes(req[t]) THEN 400
                  ELSE IF "MethodNotAllowed" \in Causes(req[t]) THEN 405
                  ELSE 500
           /\ (/\ CarriesTodo(req[t])
               /\ req[t].body.clen >= 0 /\ req[t].body.clen <= BodyLimit
               /\ req[t].ctype \in {"none", "json"}
               /\ ~TodoOk(req[t].body))
              => resp[t].status = 400

\* C11 witness: a PUT /todos/1 whose body lacks a member was answered 400,
\* the routes having rejected it for its method as well.
C11_Witness ==
    \E t \in Tasks :
        /\ pc[t] = "done"
        /\ req[t].method = "PUT" /\ req[t].path = <<SegTodos, Show(1)>>
        /\ req[t].body.json /\ req[t].body.text = JNone
        /\ {"BodyDeserializeError", "MethodNotAllowed"} \subseteq Causes(req[t])
        /\ resp[t] = Response(400, "error", "BAD_REQUEST", <<>>)

\* C12: a POST /todos whose body is longer than the 16 KiB limit fails with
\* PayloadTooLarge, is answered 400 and never touches the store.
C12_PayloadTooLarge ==
    \A t \in Tasks :
        (/\ pc[t] # "idle"
         /\ req[t].method = "POST" /\ req[t].path = <<SegTodos>>
         /\ req[t].body.clen > BodyLimit)
        => /\ pc[t] = "done"
           /\ "PayloadTooLarge" \in Causes(req[t])
           /\ t \notin Committed
           /\ resp[t].status = 400

\* A query value that is no non-negative integer.
Malformed(f) == f.present /\ ParseU64(f.val) = -1

\* C13: a GET /todos whose offset or limit is malformed fails with
\* InvalidQuery and is answered 400; with both absent it reaches list_todos
\* with no offset and no limit and is answered 200 with the whole store.
C13_MalformedQuery ==
    \A t \in Tasks :
        (pc[t] # "idle" /\ req[t].method = "GET" /\ req[t].path = <<SegTodos>>)
        => /\ (Malformed(req[t].offset) \/ Malformed(req[t].limit))
              => /\ pc[t] = "done"
                 /\ "InvalidQuery" \in Causes(req[t])
                 /\ resp[t].status = 400
           /\ (~req[t].offset.present /\ ~req[t].limit.present)
              => /\ call[t].handler = "list_todos"
                 /\ call[t].args.opts = ListOptions(None, None)
                 /\ pc[t] = "done" => resp[t].status = 200 /\ resp[t].list = local[t].snap

\* C14: GET /sleep/{s} enters sleepy exactly when s is one of the unsigned
\* integers 0 to 5, with that number as the delay; for any other s the
\* request is answered 404 at once and sleepy is never entered; so no delay
\* is longer than 5 seconds.
C14_BoundedSeconds ==
    /\ \A t \in Tasks :
           (/\ pc[t] # "idle" /\ req[t].method = "GET"
            /\ Len(req[t].path) = 2 /\ req[t].path[1] = SegSleep)
           => LET n == ParseU64(req[t].path[2])
              IN  IF n \in 0 .. 5
                  THEN /\ pc[t] \in {"sleeping", "done"}
                       /\ call[t].handler = "sleepy"
                       /\ call[t].args.seconds = n
                       /\ pc[t] = "done" => resp[t].status = 200
                  ELSE /\ pc[t] = "done"
                       /\ call[t].handler # "sleepy"
                       /\ resp[t] = Response(404, "error", "NOT_FOUND", <<>>)
    /\ \A t \in Tasks : pc[t] = "sleeping" => call[t].args.seconds \in 0 .. 5

\* C14 witness: a GET /sleep/6 was answered 404 without sleeping.
C14_Witness ==
    \E t \in Tasks :
        /\ pc[t] = "done"
        /\ req[t] = Sleep(<<"6">>)
        /\ resp[t].status = 404

\* C15: every response reporting a failure, from handlers::rejection or from
\* a handler itself, carries the JSON error body (code equal to the status)
\* with a message.
C15_ErrorBody ==
    \A t \in Tasks :
        (pc[t] = "done" /\ resp[t].status >= 400)
        => resp[t].body = "error" /\ resp[t].message # ""

\* C16: under fair scheduling no state is a deadlock (a task waiting for the
\* guard finds it free or held by a task that can run), the guard is never
\* held by a task that is yet to ask for it or has returned, and every
\* request that has begun a store operation acquires the guard, completes
\* and responds.
C16_Progress ==
    /\ [](\A t \in Tasks :
             /\ pc[t] = "lock" => guard = 0 \/ (guard \in Tasks /\ pc[guard] \in {"held", "scanned"})
             /\ pc[t] \in {"idle", "lock", "sleeping", "done"} => guard # t)
    /\ \A t \in Tasks : (pc[t] = "lock") ~> (pc[t] = "done" /\ resp[t].status # 0)

\* C16 witness: two tasks wait for the guard while a third holds it.
C16_Witness ==
    \E t, u, v \in Tasks :
        /\ t # u
        /\ pc[t] = "lock" /\ pc[u] = "lock"
        /\ pc[v] = "held" /\ guard = v

\* C17: a request to the delay endpoint never holds the guard, and a store
\* request that asks for the guard while delay requests are suspended
\* acquires it and completes, also when the sleepers never wake (nothing
\* in SpecFair obliges them to).
C17_SleepHoldsNothing ==
    /\ [](\A t \in Tasks : call[t].handler = "sleepy" => guard # t)
    /\ \A t \in Tasks :
           (pc[t] = "lock" /\ \E u \in Tasks : pc[u] = "sleeping")
           ~> (pc[t] = "done" /\ t \in Committed)

\* C17 witness: a store request holds the guard, the store read, while two
\* delay requests are suspended.
C17_Witness ==
    \E t, u, v \in Tasks :
        /\ u # v
        /\ pc[u] = "sleeping" /\ pc[v] = "sleeping"
        /\ pc[t] = "scanned" /\ guard = t

\* The tasks between the acquisition of the guard and their return.
Holders == {t \in Tasks : pc[t] \in {"held", "scanned"}}

\* C18: at most one task holds the guard; the store is read and written
\* only by the task holding it; and when a store operation returns, by the
\* conflict return of create, the match return of update, the not-found
\* return of update and delete or a normal return, the guard is free.
C18_GuardDiscipline ==
    /\ [](/\ Cardinality(Holders) <= 1
          /\ \A t \in Tasks : t \in Holders <=> guard = t)
    /\ [][/\ store' # store
             => \E t \in Tasks : guard = t /\ pc[t] = "scanned" /\ pc'[t] = "done"
          /\ \A t \in Tasks :
                 (pc[t] = "held" /\ pc'[t] = "scanned") => guard = t /\ guard' = t
          /\ \A t \in Tasks :
                 (pc[t] = "scanned" /\ pc'[t] = "done")
                 => /\ guard = t /\ guard' = 0
                    /\ resp'[t].status \in {200, 201, 204, 400, 404}]_vars

\* C18 witness: a create has returned by its conflict return, an update by
\* its not-found return, and the guard is free.
C18_Witness ==
    \E t, u \in Tasks :
        /\ pc[t] = "done" /\ call[t].handler = "create_todo" /\ resp[t].status = 400
        /\ pc[u] = "done" /\ call[u].handler = "update_todo" /\ resp[u].status = 404
        /\ guard = 0

\* The filters of a route that are applied to request r: those before the
\* first that rejects, and that one.
RECURSIVE Evaluated(_, _, _)
Evaluated(fs, r, st) ==
    IF fs = <<>> \/ ~st.ok THEN <<>>
    ELSE <<Head(fs)>> \o Evaluated(Tail(fs), r, Apply(Head(fs), r, st))

\* Some filter of kind f was applied by the route to request r.
Evaluates(route, r, f) ==
    \E i \in DOMAIN Evaluated(route.filters, r, Start(r)) :
        Evaluated(route.filters, r, Start(r))[i].f = f

\* C19: every route evaluates its path pattern, then its method, then its
\* own predicate: the delete route rejects a request matching /todos/{id}
\* with another method than DELETE for its method, without evaluating the
\* authorization header; and every route rejects a request whose path does
\* not match as a path mismatch, without evaluating its method.
C19_PredicateOrder ==
    \A t \in Tasks :
        pc[t] # "idle"
        => /\ (PathMatches(todos_delete, req[t]) /\ req[t].method # "DELETE")
              => /\ Chain(todos_delete.filters, req[t], Start(req[t])).rej
                        = {"MethodNotAllowed"}
                 /\ ~Evaluates(todos_delete, req[t], "header_exact")
           /\ \A i \in DOMAIN routes :
                  ~PathMatches(routes[i], req[t])
                  => /\ RouteOutcome(i, req[t]).rej = NotFound
                     /\ ~Evaluates(routes[i], req[t], "method")

\* Every update received so far carries a body whose id is the id of its
\* path.
UpdatesKeepId ==
    \A t \in Tasks :
        call[t].handler = "update_todo" => call[t].args.todo.id = call[t].args.id

\* Sequence s without its entry at position i.
RemoveAt(s, i) == [j \in 1 .. Len(s) - 1 |-> IF j < i THEN s[j] ELSE s[j + 1]]

\* C20: as long as every update carries a body whose id is its path id,
\* the ids of the store are pairwise distinct in every state, an update
\* changes neither the length of the store nor the id at any position, and
\* a delete removes at most one entry and keeps the others as they are, in
\* the same order.
C20_KeyPreservingUpdates ==
    /\ [](UpdatesKeepId => DistinctIds(store))
    /\ [][UpdatesKeepId' =>
            \A t \in Tasks :
                /\ Returns(t, "update_todo")
                   => /\ Len(store') = Len(store)
                      /\ \A i \in 1 .. Len(store) : store'[i].id = store[i].id
                /\ Returns(t, "delete_todo")
                   => \/ store' = store
                      \/ \E i \in 1 .. Len(store) : store' = RemoveAt(store, i)]_vars

\* C20 witness: with only id-preserving updates received, an update has
\* replaced an entry and a delete has removed one.
C20_Witness ==
    /\ UpdatesKeepId
    /\ \E t, u \in Tasks :
           /\ pc[t] = "done" /\ call[t].handler = "update_todo" /\ resp[t].status = 200
           /\ pc[u] = "done" /\ call[u].handler = "delete_todo" /\ resp[u].status = 204

====
